---- MODULE Spec2Model ----
(***************************************************************************)
(* Store-Information: the two-stage lookup of StoreInfoService /           *)
(* OpenAIService (validation, primary chat completion, web-search          *)
(* fallback, clean-up of the web-search text, final substitution, error    *)
(* mapping).                                                               *)
(*                                                                         *)
(* A text is a sequence of characters; a character is a one-character      *)
(* string.  The two bullet characters that TLA+ strings cannot hold are    *)
(* written by their code points (BULLET, MIDDOT).                          *)
(***************************************************************************)
EXTENDS Integers, Sequences, FiniteSets, TLC

VARIABLES
    pc,               \* position of the lookup in getStoreInfo / getStoreInformation
    storeName,        \* the argument of getStoreInfo
    request,          \* StoreInfoRequest.storeName (the trimmed name)
    attempt,          \* HTTP attempts the client has made for the call in flight
    primaryCalls,     \* chat.completions.create calls issued by this lookup
    secondaryCalls,   \* responses.create calls issued by this lookup
    primaryRequests,  \* HTTP requests the client sent for the primary call
    secondaryRequests,\* HTTP requests the client sent for the secondary call
    completion,       \* what the primary call returned or threw, None before
    responseData,     \* what the secondary call returned or threw, None before
    response,         \* the local variable `response` of getStoreInformation
    result,           \* the StoreInfoResponse returned, None if none
    error,            \* the StoreInfoError thrown, None if none
    sent,             \* the requests this lookup handed to the client, in order
    cleanPc,          \* clean-up specification: "raw" before the chain ran, "clean" after
    rawText,          \* clean-up specification: the text given to the chain
    cleanText,        \* clean-up specification: the text the chain produced
    env,              \* process.env: OPENAI_API_KEY, OPENAI_MODEL, API_TIMEOUT
    config,           \* the OpenAIConfig getOpenAIConfig returned, None before
    clientOptions,    \* the options the OpenAI client was built with, None before
    cliPc,            \* position of main / CLI.run
    prompt,           \* the message of the prompt shown last, "" if none
    validation,       \* the message the prompt's validator answered last, "" if none
    spinner,          \* the spinner in this turn of the loop: "", "start", "succeed", "fail"
    printed,          \* the formatted block printed in this turn of the loop
    logged,           \* the lines logger.error wrote in this turn of the loop
    continueRunning,  \* the local variable of CLI.run
    goodbye,          \* whether run has printed its closing message
    exitCode,         \* the argument of process.exit, Undefined while running
    caught,           \* the error caught by main, None if none
    lookups,          \* concurrent specification: the lookups in flight on one service
    calls             \* concurrent specification: the calls the service's client was given

vars == <<pc, storeName, request, attempt, primaryCalls, secondaryCalls,
          primaryRequests, secondaryRequests, completion, responseData,
          response, result, error, sent, cleanPc, rawText, cleanText,
          env, config, clientOptions, cliPc, prompt, validation, spinner,
          printed, logged, continueRunning, goodbye, exitCode, caught, lookups, calls>>

cleanVars == <<cleanPc, rawText, cleanText>>

cliVars == <<env, config, clientOptions, cliPc, prompt, validation, spinner,
             printed, logged, continueRunning, goodbye, exitCode, caught>>

concVars == <<lookups, calls>>

lookupVars == <<pc, storeName, request, attempt, primaryCalls, secondaryCalls,
                primaryRequests, secondaryRequests, completion, responseData,
                response, result, error, sent>>

None == [none |-> TRUE]

(***************************************************************************)
(* Characters and texts                                                    *)
(***************************************************************************)
BULLET == "u2022"
MIDDOT == "u00B7"

\* the characters /\s/ and String.prototype.trim treat as white space
WhiteSpace == {" ", "\t", "\n"}

\* the character class [•·-] of the bullet pattern
BulletChars == {BULLET, MIDDOT, "-"}

Min(S) == CHOOSE x \in S : \A y \in S : x <= y
Max(S) == CHOOSE x \in S : \A y \in S : x >= y

\* s[i], or the empty string past either end of s
At(s, i) == IF i \in 1..Len(s) THEN s[i] ELSE ""

\* String.prototype.trim
Trim(s) ==
    LET keep == {i \in 1..Len(s) : s[i] \notin WhiteSpace}
    IN  IF keep = {} THEN <<>> ELSE SubSeq(s, Min(keep), Max(keep))

\* index of the first character of s at or after i that is in C, 0 if none
FirstAt(s, i, C) ==
    LET hits == {j \in i..Len(s) : s[j] \in C}
    IN  IF hits = {} THEN 0 ELSE Min(hits)

\* index of the last character of the longest run of C-characters of s that
\* starts at i (i - 1 when s[i] is not in C): where a greedy C* stops
RunEnd(s, i, C) ==
    LET stops == {j \in i..Len(s) : s[j] \notin C}
    IN  IF stops = {} THEN Len(s) ELSE Min(stops) - 1

(***************************************************************************)
(* The patterns of the clean-up chain.  Each operator gives the length of  *)
(* the pattern's match that starts at position i of s, 0 when there is     *)
(* none (no pattern of the chain matches the empty string).                *)
(***************************************************************************)

\* /\(\[([^\]]+)\]\([^)]+\)\)/
MatchWrappedLink(s, i) ==
    IF At(s, i) = "(" /\ At(s, i + 1) = "["
    THEN LET j == FirstAt(s, i + 2, {"]"})
         IN  IF j >= i + 3 /\ At(s, j + 1) = "("
             THEN LET k == FirstAt(s, j + 2, {")"})
                  IN  IF k >= j + 3 /\ At(s, k + 1) = ")"
                      THEN k + 1 - i + 1
                      ELSE 0
             ELSE 0
    ELSE 0

\* /\[[^\]]+\]\([^)]+\)/
MatchLink(s, i) ==
    IF At(s, i) = "["
    THEN LET j == FirstAt(s, i + 1, {"]"})
         IN  IF j >= i + 2 /\ At(s, j + 1) = "("
             THEN LET k == FirstAt(s, j + 2, {")"})
                  IN  IF k >= j + 3 THEN k - i + 1 ELSE 0
             ELSE 0
    ELSE 0

\* /\([^)]*\)/
MatchParenthetical(s, i) ==
    IF At(s, i) = "("
    THEN LET k == FirstAt(s, i + 1, {")"})
         IN  IF k > 0 THEN k - i + 1 ELSE 0
    ELSE 0

\* /\n\n+/
MatchLineBreaks(s, i) ==
    IF At(s, i) = "\n" /\ At(s, i + 1) = "\n"
    THEN RunEnd(s, i, {"\n"}) - i + 1
    ELSE 0

\* /\n/
MatchLineBreak(s, i) == IF At(s, i) = "\n" THEN 1 ELSE 0

\* /\s*[•·-]\s*/
MatchBullet(s, i) ==
    LET e == RunEnd(s, i, WhiteSpace)
    IN  IF At(s, e + 1) \in BulletChars
        THEN RunEnd(s, e + 2, WhiteSpace) - i + 1
        ELSE 0

\* /\s+/
MatchSpaces(s, i) ==
    IF At(s, i) \in WhiteSpace THEN RunEnd(s, i, WhiteSpace) - i + 1 ELSE 0

\* /\s+\./
MatchSpacePeriod(s, i) ==
    IF At(s, i) \in WhiteSpace /\ At(s, RunEnd(s, i, WhiteSpace) + 1) = "."
    THEN RunEnd(s, i, WhiteSpace) + 1 - i + 1
    ELSE 0

\* /\s+,/
MatchSpaceComma(s, i) ==
    IF At(s, i) \in WhiteSpace /\ At(s, RunEnd(s, i, WhiteSpace) + 1) = ","
    THEN RunEnd(s, i, WhiteSpace) + 1 - i + 1
    ELSE 0

\* length of the match of the named pattern at position i of s
MatchLength(pattern, s, i) ==
    CASE pattern = "wrappedLink"   -> MatchWrappedLink(s, i)
      [] pattern = "link"          -> MatchLink(s, i)
      [] pattern = "parenthetical" -> MatchParenthetical(s, i)
      [] pattern = "lineBreaks"    -> MatchLineBreaks(s, i)
      [] pattern = "lineBreak"     -> MatchLineBreak(s, i)
      [] pattern = "bullet"        -> MatchBullet(s, i)
      [] pattern = "spaces"        -> MatchSpaces(s, i)
      [] pattern = "spacePeriod"   -> MatchSpacePeriod(s, i)
      [] pattern = "spaceComma"    -> MatchSpaceComma(s, i)

\* String.prototype.replace with a /g pattern: scan from the left, replace
\* each match by rep and go on after it, copy every other character
RECURSIVE ReplaceFrom(_, _, _, _)
ReplaceFrom(pattern, s, rep, i) ==
    IF i > Len(s)
    THEN <<>>
    ELSE LET n == MatchLength(pattern, s, i)
         IN  IF n > 0
             THEN rep \o ReplaceFrom(pattern, s, rep, i + n)
             ELSE <<s[i]>> \o ReplaceFrom(pattern, s, rep, i + 1)

ReplaceAll(pattern, s, rep) == ReplaceFrom(pattern, s, rep, 1)

\* faulty variant of cleanedResponse: the parentheticals are left in
cleanedResponseKeepParentheticals(webSearchResponse) ==
    LET s1 == ReplaceAll("wrappedLink", webSearchResponse, <<>>)
        s2 == ReplaceAll("link", s1, <<>>)
        s4 == ReplaceAll("lineBreaks", s2, <<" ">>)
        s5 == ReplaceAll("lineBreak", s4, <<" ">>)
        s6 == ReplaceAll("bullet", s5, <<" ">>)
        s7 == ReplaceAll("spaces", s6, <<" ">>)
        s8 == ReplaceAll("spacePeriod", s7, <<".">>)
        s9 == ReplaceAll("spaceComma", s8, <<",">>)
    IN  Trim(s9)

\* faulty variant of cleanedResponse: the spacing before punctuation is
\* fixed before the bullets are removed
cleanedResponsePunctuationFirst(webSearchResponse) ==
    LET s1 == ReplaceAll("wrappedLink", webSearchResponse, <<>>)
        s2 == ReplaceAll("link", s1, <<>>)
        s3 == ReplaceAll("parenthetical", s2, <<>>)
        s4 == ReplaceAll("lineBreaks", s3, <<" ">>)
        s5 == ReplaceAll("lineBreak", s4, <<" ">>)
        s6 == ReplaceAll("spacePeriod", s5, <<".">>)
        s7 == ReplaceAll("spaceComma", s6, <<",">>)
        s8 == ReplaceAll("bullet", s7, <<" ">>)
        s9 == ReplaceAll("spaces", s8, <<" ">>)
    IN  Trim(s9)

\* faulty variant of cleanedResponse: the bullet characters are left in
cleanedResponseKeepBullets(webSearchResponse) ==
    LET s1 == ReplaceAll("wrappedLink", webSearchResponse, <<>>)
        s2 == ReplaceAll("link", s1, <<>>)
        s3 == ReplaceAll("parenthetical", s2, <<>>)
        s4 == ReplaceAll("lineBreaks", s3, <<" ">>)
        s5 == ReplaceAll("lineBreak", s4, <<" ">>)
        s7 == ReplaceAll("spaces", s5, <<" ">>)
        s8 == ReplaceAll("spacePeriod", s7, <<".">>)
        s9 == ReplaceAll("spaceComma", s8, <<",">>)
    IN  Trim(s9)

\* the chain that computes cleanedResponse from webSearchResponse
cleanedResponse(webSearchResponse) ==
    LET s1 == ReplaceAll("wrappedLink", webSearchResponse, <<>>)
        s2 == ReplaceAll("link", s1, <<>>)
        s3 == ReplaceAll("parenthetical", s2, <<>>)
        s4 == ReplaceAll("lineBreaks", s3, <<" ">>)
        s5 == ReplaceAll("lineBreak", s4, <<" ">>)
        s6 == ReplaceAll("bullet", s5, <<" ">>)
        s7 == ReplaceAll("spaces", s6, <<" ">>)
        s8 == ReplaceAll("spacePeriod", s7, <<".">>)
        s9 == ReplaceAll("spaceComma", s8, <<",">>)
    IN  Trim(s9)

(***************************************************************************)
(* Fixed texts of the program                                              *)
(***************************************************************************)
\* the sentinel the prompt asks the model to return when it is uncertain
Zero == <<"0">>

\* "We're unable to single-out detailed context about this store."
FallbackSentence ==
    <<"W","e","'","r","e"," ","u","n","a","b","l","e"," ","t","o"," ","s",
      "i","n","g","l","e","-","o","u","t"," ","d","e","t","a","i","l","e",
      "d"," ","c","o","n","t","e","x","t"," ","a","b","o","u","t"," ","t",
      "h","i","s"," ","s","t","o","r","e",".">>

(***************************************************************************)
(* validateStoreName                                                       *)
(***************************************************************************)
MaxStoreNameLength == 200

StoreInfoError(type, message, details) ==
    [type |-> type, message |-> message, details |-> details]

\* faulty variant of validateStoreName: the length is taken after trimming
validateStoreNameTrimmedLength(name) ==
    IF Len(name) = 0 \/ Len(Trim(name)) = 0
    THEN StoreInfoError("INVALID_INPUT", "Store URL cannot be empty", None)
    ELSE IF Len(Trim(name)) > MaxStoreNameLength
         THEN StoreInfoError("INVALID_INPUT",
                             "Store URL is too long (maximum 200 characters)", None)
         ELSE None

\* faulty variant of validateStoreName: the length is not checked
validateStoreNameNoLengthLimit(name) ==
    IF Len(name) = 0 \/ Len(Trim(name)) = 0
    THEN StoreInfoError("INVALID_INPUT", "Store URL cannot be empty", None)
    ELSE None

\* the StoreInfoError validateStoreName throws for storeName, None if it
\* returns normally
validateStoreName(name) ==
    IF Len(name) = 0 \/ Len(Trim(name)) = 0
    THEN StoreInfoError("INVALID_INPUT", "Store URL cannot be empty", None)
    ELSE IF Len(name) > MaxStoreNameLength
         THEN StoreInfoError("INVALID_INPUT",
                             "Store URL is too long (maximum 200 characters)", None)
         ELSE None

\* the characters of a message a StoreInfoError is built with
MessageText(message) ==
    CASE message = "Store URL cannot be empty" ->
            <<"S","t","o","r","e"," ","U","R","L"," ","c","a","n","n","o",
              "t"," ","b","e"," ","e","m","p","t","y">>
      [] message = "Store URL is too long (maximum 200 characters)" ->
            <<"S","t","o","r","e"," ","U","R","L"," ","i","s"," ","t","o",
              "o"," ","l","o","n","g"," ","(","m","a","x","i","m","u","m",
              " ","2","0","0"," ","c","h","a","r","a","c","t","e","r","s",
              ")">>
      [] message = "OpenAI API error" ->
            <<"O","p","e","n","A","I"," ","A","P","I"," ","e","r","r","o",
              "r">>
      [] message = "Failed to get store information" ->
            <<"F","a","i","l","e","d"," ","t","o"," ","g","e","t"," ","s",
              "t","o","r","e"," ","i","n","f","o","r","m","a","t","i","o",
              "n">>

(***************************************************************************)
(* The remote client (new OpenAI({apiKey, timeout})).  A call settles      *)
(* either fulfilled with a value or rejected with an error; the error      *)
(* classes are those of the client library: APIConnectionError and         *)
(* APIConnectionTimeoutError are subclasses of APIError and carry no       *)
(* status and no code.  The service builds the client without maxRetries,  *)
(* so the client re-sends a request that timed out, could not connect or   *)
(* got a 408, 409, 429 or 5xx status, maxRetries times before it rejects.  *)
(***************************************************************************)
maxRetries == 2

\* an optional value: <<>> is undefined, <<v>> is v
Undefined == <<>>
Some(v) == <<v>>

ErrorValue(class, status, code) == [class |-> class, status |-> status, code |-> code]

\* an error response of the provider (application level)
StatusErrors ==
    {ErrorValue("APIError", Some(401), Some("invalid_api_key")),
     ErrorValue("APIError", Some(429), Some("rate_limit_exceeded"))}

\* the service cannot be reached, the transport fails
ConnectionError == ErrorValue("APIConnectionError", Undefined, Undefined)

\* the request exceeded the timeout the client was built with
TimeoutError == ErrorValue("APIConnectionTimeoutError", Undefined, Undefined)

\* a failure that is no error of the client library
OtherError == ErrorValue("Error", Undefined, Undefined)

\* reading a property of undefined
TypeError == ErrorValue("TypeError", Undefined, Undefined)

ClientErrors == StatusErrors \cup {ConnectionError, TimeoutError, OtherError}

\* error instanceof OpenAI.APIError
InstanceOfAPIError(e) ==
    e.class \in {"APIError", "APIConnectionError", "APIConnectionTimeoutError"}

\* whether the client sends the request again after this failure
ShouldRetry(e) ==
    \/ e.class \in {"APIConnectionError", "APIConnectionTimeoutError"}
    \/ /\ e.class = "APIError"
       /\ e.status # Undefined
       /\ \/ e.status[1] \in {408, 409, 429}
          \/ e.status[1] >= 500

Fulfilled(v) == [settled |-> "fulfilled", value |-> v]
Rejected(e) == [settled |-> "rejected", value |-> e]

(***************************************************************************)
(* What the two remote calls can return                                    *)
(***************************************************************************)
\* most white space put on either side of a store name
MaxPad == 1

Pad(k) == [i \in 1..k |-> " "]
Letters(n) == [i \in 1..n |-> "a"]
Padded(t) == {Pad(l) \o t \o Pad(r) : l \in 0..MaxPad, r \in 0..MaxPad}

AppleStore == <<"A","p","p","l","e"," ","S","t","o","r","e">>

\* the arguments getStoreInfo is called with
StoreNames ==
    UNION {Padded(Letters(n)) :
             n \in {0, 1, MaxStoreNameLength - 1, MaxStoreNameLength,
                    MaxStoreNameLength + 1}}
        \cup {AppleStore, <<"\t", "\n">>}

\* "A. B. C."
Paragraph == <<"A", ".", " ", "B", ".", " ", "C", ".">>

\* "Acme was founded in 1990 ([source](http://x))  extra   spaces ."
AcmeRaw ==
    <<"A","c","m","e"," ","w","a","s"," ","f","o","u","n","d","e","d"," ",
      "i","n"," ","1","9","9","0"," ","(","[","s","o","u","r","c","e","]",
      "(","h","t","t","p",":","/","/","x",")",")"," "," ","e","x","t","r",
      "a"," "," "," ","s","p","a","c","e","s"," ",".">>

\* "Acme was founded in 1990 extra spaces."
AcmeClean ==
    <<"A","c","m","e"," ","w","a","s"," ","f","o","u","n","d","e","d"," ",
      "i","n"," ","1","9","9","0"," ","e","x","t","r","a"," ","s","p","a",
      "c","e","s",".">>

\* texts with the markup the clean-up chain is about
MarkedUpTexts ==
    {AcmeRaw,
     <<"[", "a", "]", "(", "b", ")">>,
     <<"a", " ", "(", "b", ")", " ", "c", " ", ".">>,
     <<"a", " ", "-", " ", "b">>,
     <<"a", BULLET, "b", "\t", MIDDOT, "c">>,
     <<"a", "\n", "\n", "b", " ", ",", "c">>,
     <<"a", " ", " ", "b">>}

\* message.content of the first choice of the primary call
PrimaryContents ==
    {<<>>, <<" ">>, Zero, <<" ", "0", " ">>, <<"\n", "0", "\n">>, <<"0", "0">>,
     Paragraph, <<" ">> \o Paragraph \o <<"\n">>}
        \cup MarkedUpTexts

\* the chat completion the primary call is fulfilled with.  shape says what
\* completion.choices holds: "content" a first choice whose message has the
\* content given, "nullContent" a first choice whose content is null,
\* "noChoices" an empty list, "malformed" no choices property at all
Completion(shape, content) == [shape |-> shape, content |-> content]

Completions ==
    {Completion("content", c) : c \in PrimaryContents}
        \cup {Completion(sh, <<>>) : sh \in {"nullContent", "noChoices", "malformed"}}

\* the text the secondary call answers with
SecondaryTexts ==
    {<<>>, <<" ">>, Zero, <<" ", "0", " ">>, <<"(", "0", ")">>,
     <<"0", " ", "(", "a", ")">>, <<"-">>, <<"0", "0">>,
     Paragraph, <<" ">> \o Paragraph \o <<"\n">>}
        \cup MarkedUpTexts

\* an item of a list-shaped answer: its type, the type of its first content
\* element ("" when it has none) and that element's text
Item(type, ctype, text) == [type |-> type, ctype |-> ctype, text |-> text]

\* the value the secondary call is fulfilled with.  shape: "string" the text
\* itself, "object" an object whose output_text is the text, "list" an array
\* of items, "undefined" no value
ResponseData(shape, text, items) == [shape |-> shape, text |-> text, items |-> items]

ResponseDatas ==
    {ResponseData(sh, t, <<>>) : sh \in {"string", "object"}, t \in SecondaryTexts}
        \cup {ResponseData("list", <<>>, <<Item("message", "output_text", t)>>) :
                t \in SecondaryTexts}
        \cup {ResponseData("list", <<>>,
                           <<Item("reasoning", "", <<>>),
                             Item("message", "refusal", Paragraph),
                             Item("message", "output_text", AcmeRaw)>>),
              ResponseData("list", <<>>, <<Item("web_search_call", "", <<>>)>>),
              ResponseData("list", Paragraph,
                           <<Item("message", "output_text", AcmeRaw)>>),
              ResponseData("list", <<>>, <<>>),
              ResponseData("undefined", <<>>, <<>>)}

(***************************************************************************)
(* getStoreInformation, between its awaits                                 *)
(***************************************************************************)
\* completion.choices[0]?.message?.content || '', or the TypeError the
\* expression throws; the result is a settled value like a call's
firstContent(c) ==
    IF c.shape = "malformed"
    THEN Rejected(TypeError)
    ELSE IF c.shape = "content" THEN Fulfilled(c.content) ELSE Fulfilled(<<>>)

\* faulty variant of IsInconclusive: an empty text is taken as an answer
IsInconclusiveZeroOnly(text) == Trim(text) = Zero

\* the condition that sends the lookup to the web search
IsInconclusive(text) == Trim(text) = Zero \/ Len(Trim(text)) = 0

\* faulty variant of webSearchResponse: a list is searched before its
\* output_text is looked at
webSearchResponseListFirst(d) ==
    IF d.shape = "undefined"
    THEN Rejected(TypeError)
    ELSE IF d.shape = "string"
    THEN Fulfilled(d.text)
    ELSE IF d.shape = "list"
    THEN LET found == {i \in 1..Len(d.items) :
                         /\ d.items[i].type = "message"
                         /\ d.items[i].ctype = "output_text"}
         IN  IF found # {} /\ Len(d.items[Min(found)].text) > 0
             THEN Fulfilled(d.items[Min(found)].text)
             ELSE Fulfilled(d.text)
    ELSE Fulfilled(d.text)

\* the extraction of webSearchResponse from responseData, or the TypeError
\* that reading a property of undefined throws; d.text of an answer that is
\* no string is its output_text property, empty when it has none
webSearchResponse(d) ==
    IF d.shape = "undefined"
    THEN Rejected(TypeError)
    ELSE IF d.shape = "string"
    THEN Fulfilled(d.text)
    ELSE IF Len(d.text) > 0
    THEN Fulfilled(d.text)
    ELSE IF d.shape = "list"
    THEN LET found == {i \in 1..Len(d.items) :
                         /\ d.items[i].type = "message"
                         /\ d.items[i].ctype = "output_text"}
         IN  IF found # {} /\ Len(d.items[Min(found)].text) > 0
             THEN Fulfilled(d.items[Min(found)].text)
             ELSE Fulfilled(<<>>)
    ELSE Fulfilled(<<>>)

\* faulty variant of responseAfterWebSearch: the raw text is used
responseAfterWebSearchRaw(text) ==
    LET trimmedWebResponse == cleanedResponse(text)
    IN  IF trimmedWebResponse = Zero \/ Len(trimmedWebResponse) = 0
        THEN Zero
        ELSE text

\* the value of `response` after the web-search branch returned text:
\* the cleaned text, or "0" when the cleaned text is "0" or empty
responseAfterWebSearch(text) ==
    LET trimmedWebResponse == cleanedResponse(text)
    IN  IF trimmedWebResponse = Zero \/ Len(trimmedWebResponse) = 0
        THEN Zero
        ELSE trimmedWebResponse

\* faulty variant of finalResponse: the sentinel is not replaced
finalResponseNoSubstitution(resp) == Trim(resp)

\* faulty variant of finalResponse: the text is cleaned whatever its origin
finalResponseCleaned(resp) ==
    LET trimmedResponse == cleanedResponse(resp)
    IN  IF Len(trimmedResponse) = 0 \/ trimmedResponse = Zero
        THEN FallbackSentence
        ELSE trimmedResponse

\* the final substitution
finalResponse(resp) ==
    LET trimmedResponse == Trim(resp)
    IN  IF Len(trimmedResponse) = 0 \/ trimmedResponse = Zero
        THEN FallbackSentence
        ELSE trimmedResponse

StoreInfoResponse(name, information) ==
    [storeName |-> name, information |-> information]

\* faulty variant of caughtError: an error that is no APIError is thrown on
\* as it is
caughtErrorRethrow(e) ==
    IF InstanceOfAPIError(e)
    THEN StoreInfoError("API_ERROR", "OpenAI API error",
                        [status |-> e.status, code |-> e.code])
    ELSE e

\* the outer catch: the error getStoreInformation throws for a caught error
caughtError(e) ==
    IF InstanceOfAPIError(e)
    THEN StoreInfoError("API_ERROR", "OpenAI API error",
                        [status |-> e.status, code |-> e.code])
    ELSE StoreInfoError("NETWORK_ERROR", "Failed to get store information", e)

(***************************************************************************)
(* Configuration                                                           *)
(***************************************************************************)
\* a synchronous call that returned v, one that threw e
Ok(v) == [threw |-> FALSE, value |-> v]
Throws(e) == [threw |-> TRUE, value |-> e]

\* a JavaScript number: an integer or NaN
Num(n) == [nan |-> FALSE, value |-> n]
NaN == [nan |-> TRUE, value |-> 0]

\* whether an environment variable (a string or undefined) is truthy
Truthy(v) == v # Undefined /\ v # Some(<<>>)

DigitChars == {"0", "1", "2", "3", "4", "5", "6", "7", "8", "9"}

DigitValue(c) ==
    CASE c = "0" -> 0 [] c = "1" -> 1 [] c = "2" -> 2 [] c = "3" -> 3
      [] c = "4" -> 4 [] c = "5" -> 5 [] c = "6" -> 6 [] c = "7" -> 7
      [] c = "8" -> 8 [] c = "9" -> 9

\* the number a sequence of decimal digits denotes
RECURSIVE DigitsValue(_)
DigitsValue(ds) ==
    IF ds = <<>> THEN 0
    ELSE DigitsValue(SubSeq(ds, 1, Len(ds) - 1)) * 10 + DigitValue(ds[Len(ds)])

\* parseInt(s, 10): leading white space is skipped, a sign is read, then the
\* longest run of decimal digits; NaN when there is no digit there
parseInt(s) ==
    LET black == {i \in 1..Len(s) : s[i] \notin WhiteSpace}
        start == IF black = {} THEN Len(s) + 1 ELSE Min(black)
        signed == start <= Len(s) /\ s[start] \in {"+", "-"}
        first == IF signed THEN start + 1 ELSE start
        other == {i \in first..Len(s) : s[i] \notin DigitChars}
        last == IF other = {} THEN Len(s) ELSE Min(other) - 1
        digits == SubSeq(s, first, last)
    IN  IF digits = <<>> THEN NaN
        ELSE IF signed /\ s[start] = "-" THEN Num(0 - DigitsValue(digits))
             ELSE Num(DigitsValue(digits))

\* 'gpt-5-nano', the model getOpenAIConfig falls back to
DefaultModel == <<"g", "p", "t", "-", "5", "-", "n", "a", "n", "o">>

\* the timeout getOpenAIConfig falls back to
DefaultTimeout == 30000

\* the model parameter of the primary call
PrimaryModel == <<"g", "p", "t", "-", "5", "-", "n", "a", "n", "o">>

\* the model parameter of the secondary call
SecondaryModel == <<"g", "p", "t", "-", "5", "-", "m", "i", "n", "i">>

\* faulty variant of getOpenAIConfig: the API key is not checked
getOpenAIConfigNoKeyCheck(e) ==
    Ok([apiKey |-> IF e.OPENAI_API_KEY = Undefined THEN <<>>
                   ELSE e.OPENAI_API_KEY[1],
        model |-> IF Truthy(e.OPENAI_MODEL) THEN e.OPENAI_MODEL[1]
                  ELSE DefaultModel,
        timeout |-> IF Truthy(e.API_TIMEOUT) THEN parseInt(e.API_TIMEOUT[1])
                    ELSE Num(DefaultTimeout)])

\* getOpenAIConfig in the environment e
getOpenAIConfig(e) ==
    IF ~Truthy(e.OPENAI_API_KEY)
    THEN Throws(StoreInfoError("CONFIGURATION_ERROR",
                               "OPENAI_API_KEY is not set in environment variables",
                               None))
    ELSE Ok([apiKey |-> e.OPENAI_API_KEY[1],
             model |-> IF Truthy(e.OPENAI_MODEL) THEN e.OPENAI_MODEL[1]
                       ELSE DefaultModel,
             timeout |-> IF Truthy(e.API_TIMEOUT) THEN parseInt(e.API_TIMEOUT[1])
                         ELSE Num(DefaultTimeout)])

\* the options the constructor of OpenAIService builds the client with
OpenAIService(c) == [apiKey |-> c.apiKey, timeout |-> c.timeout]

\* new CLI(): the configuration and the client options of the service it
\* holds, or the error it throws (a StoreInfoError is thrown on as it is,
\* and getOpenAIConfig throws nothing else)
CLI(e) ==
    LET c == getOpenAIConfig(e)
    IN  IF c.threw THEN Throws(c.value)
        ELSE Ok([config |-> c.value, clientOptions |-> OpenAIService(c.value)])

\* faulty variant of validate: the length is taken after trimming
validateTrimmedLength(input) ==
    IF Len(Trim(input)) = 0
    THEN [valid |-> FALSE, message |-> "Please enter a store URL"]
    ELSE IF Len(Trim(input)) > MaxStoreNameLength
         THEN [valid |-> FALSE,
               message |-> "Store URL is too long (max 200 characters)"]
         ELSE [valid |-> TRUE, message |-> ""]

\* the validator of the store prompt
validate(input) ==
    IF Len(Trim(input)) = 0
    THEN [valid |-> FALSE, message |-> "Please enter a store URL"]
    ELSE IF Len(input) > MaxStoreNameLength
         THEN [valid |-> FALSE,
               message |-> "Store URL is too long (max 200 characters)"]
         ELSE [valid |-> TRUE, message |-> ""]

\* formatResponse: header, body and footer of the block, or the TypeError of
\* calling toLocaleString on a timestamp that is undefined
formatResponse(r) ==
    IF "timestamp" \in DOMAIN r
    THEN Ok([header |-> r.storeName, body |-> r.information,
             generated |-> r.timestamp])
    ELSE Throws(TypeError)

\* the lines handleError logs for an error caught in the loop
handleError(e) ==
    IF "type" \in DOMAIN e
    THEN CASE e.type = "API_ERROR" ->
                <<"API Error: ">> \o
                    (IF e.details.status = Some(401)
                     THEN <<"Invalid API key. Please check your .env file.">>
                     ELSE IF e.details.status = Some(429)
                          THEN <<"Rate limit exceeded. Please try again later.">>
                          ELSE <<>>)
           [] e.type = "NETWORK_ERROR" ->
                <<"Network Error: Please check your internet connection.">>
           [] e.type = "INVALID_INPUT" -> <<"Invalid Input: ">>
           [] e.type = "CONFIGURATION_ERROR" -> <<"Configuration Error: ">>
    ELSE <<"Unexpected error: ">>

\* the environment with the three variables given
Env(key, model, timeout) ==
    [OPENAI_API_KEY |-> key, OPENAI_MODEL |-> model, API_TIMEOUT |-> timeout]

\* the command line interface has not been started
CliNotStarted ==
    /\ config = None
    /\ clientOptions = None
    /\ cliPc = "Start"
    /\ prompt = ""
    /\ validation = ""
    /\ spinner = ""
    /\ printed = Undefined
    /\ logged = <<>>
    /\ continueRunning = TRUE
    /\ exitCode = Undefined
    /\ caught = None
    /\ goodbye = FALSE
    /\ lookups = <<>>
    /\ calls = [primary |-> 0, secondary |-> 0]

\* buildPrompt: the store name between the text before it, which ends
\* `the store at URL: "`, and the text after it, which starts `". Focus`
PromptHead == <<"U", "R", "L", ":", " ", "\"">>
PromptTail == <<"\"", ".", " ", "F", "o", "c", "u", "s">>
buildPrompt(name) == PromptHead \o name \o PromptTail

\* getSystemPrompt, which ends `etc...).`
SystemPrompt == <<"e", "t", "c", ".", ".", ".", ")", ".">>

\* the text the input of the web search ends with, which starts `CRITICAL:`
SecondarySuffix == <<"C", "R", "I", "T", "I", "C", "A", "L", ":">>

\* the parameters of chat.completions.create: the model and the user message
PrimaryRequest(name) ==
    [api |-> "chat.completions", model |-> PrimaryModel,
     system |-> SystemPrompt, text |-> buildPrompt(name)]

\* the parameters of responses.create: the model and the input
SecondaryRequest(name) ==
    [api |-> "responses", model |-> SecondaryModel, system |-> <<>>,
     text |-> SystemPrompt \o <<"\n", "\n">> \o buildPrompt(name)
                  \o <<"\n", "\n">> \o SecondarySuffix]

(***************************************************************************)
(* The lookup                                                              *)
(***************************************************************************)
LookupInit ==
    /\ pc = "Idle"
    /\ storeName = <<>>
    /\ request = <<>>
    /\ attempt = 0
    /\ primaryCalls = 0
    /\ secondaryCalls = 0
    /\ primaryRequests = 0
    /\ secondaryRequests = 0
    /\ completion = None
    /\ responseData = None
    /\ response = <<>>
    /\ result = None
    /\ error = None
    /\ sent = <<>>

Init ==
    /\ LookupInit
    /\ cleanPc = "raw"
    /\ rawText = <<>>
    /\ cleanText = <<>>
    /\ env = Env(Undefined, Undefined, Undefined)
    /\ CliNotStarted

\* faulty variant of getStoreInfo: the name is used as it was passed
getStoreInfoUntrimmed(name) ==
    /\ pc = "Idle"
    /\ storeName' = name
    /\ IF validateStoreName(name) # None
       THEN /\ error' = validateStoreName(name)
            /\ pc' = "Failed"
            /\ UNCHANGED <<request, primaryCalls, sent>>
       ELSE /\ request' = name
            /\ primaryCalls' = primaryCalls + 1
            /\ sent' = Append(sent, PrimaryRequest(name))
            /\ pc' = "AwaitPrimary"
            /\ UNCHANGED error
    /\ UNCHANGED <<attempt, secondaryCalls, primaryRequests, secondaryRequests,
                   completion, responseData, response, result>>

\* getStoreInfo up to the first await of getStoreInformation: validation,
\* trimming, the request, and the primary call handed to the client
getStoreInfo(name) ==
    /\ pc = "Idle"
    /\ storeName' = name
    /\ IF validateStoreName(name) # None
       THEN /\ error' = validateStoreName(name)
            /\ pc' = "Failed"
            /\ UNCHANGED <<request, primaryCalls, sent>>
       ELSE /\ request' = Trim(name)
            /\ primaryCalls' = primaryCalls + 1
            /\ sent' = Append(sent, PrimaryRequest(Trim(name)))
            /\ pc' = "AwaitPrimary"
            /\ UNCHANGED error
    /\ UNCHANGED <<attempt, secondaryCalls, primaryRequests, secondaryRequests,
                   completion, responseData, response, result>>

\* getStoreInfo called on a service by a program that uses it as a library
GetStoreInfo(name) ==
    /\ getStoreInfo(name)
    /\ UNCHANGED <<cleanVars, cliVars, concVars>>

\* the client sends the primary request and gets a chat completion
PrimaryFulfilled(c) ==
    /\ pc = "AwaitPrimary"
    /\ primaryRequests' = primaryRequests + 1
    /\ completion' = Fulfilled(c)
    /\ attempt' = 0
    /\ pc' = "PrimarySettled"
    /\ UNCHANGED <<storeName, request, sent, primaryCalls, secondaryCalls,
                   secondaryRequests, responseData, response, result, error,
                   cleanVars, cliVars, concVars>>

\* the client sends the primary request and it fails: the client sends it
\* again if the failure is one it retries and retries are left, and rejects
\* the call otherwise
PrimaryFailed(e) ==
    /\ pc = "AwaitPrimary"
    /\ primaryRequests' = primaryRequests + 1
    /\ IF ShouldRetry(e) /\ attempt < maxRetries
       THEN /\ attempt' = attempt + 1
            /\ UNCHANGED <<completion, pc>>
       ELSE /\ attempt' = 0
            /\ completion' = Rejected(e)
            /\ pc' = "PrimarySettled"
    /\ UNCHANGED <<storeName, request, sent, primaryCalls, secondaryCalls,
                   secondaryRequests, responseData, response, result, error,
                   cleanVars, cliVars, concVars>>

\* faulty variant of PrimaryReturned: no web search, the final substitution
\* is made on the primary text
PrimaryReturnedNoSecondary ==
    /\ pc = "PrimarySettled"
    /\ LET content == IF completion.settled = "rejected"
                      THEN completion
                      ELSE firstContent(completion.value)
       IN  IF content.settled = "rejected"
           THEN /\ error' = caughtError(content.value)
                /\ pc' = "Failed"
                /\ UNCHANGED <<response, result>>
           ELSE /\ response' = content.value
                /\ result' = StoreInfoResponse(request,
                                               finalResponse(content.value))
                /\ pc' = "Done"
                /\ UNCHANGED error
    /\ UNCHANGED <<storeName, request, sent, attempt, primaryCalls,
                   secondaryCalls, primaryRequests, secondaryRequests,
                   completion, responseData, cleanVars, cliVars, concVars>>

\* getStoreInformation after the primary call settled: a rejection or a
\* malformed completion goes to the outer catch; an inconclusive text sends
\* the secondary call; any other text is returned
PrimaryReturned ==
    /\ pc = "PrimarySettled"
    /\ LET content == IF completion.settled = "rejected"
                      THEN completion
                      ELSE firstContent(completion.value)
       IN  IF content.settled = "rejected"
           THEN /\ error' = caughtError(content.value)
                /\ pc' = "Failed"
                /\ UNCHANGED <<response, secondaryCalls, result, sent>>
           ELSE /\ response' = content.value
                /\ IF IsInconclusive(content.value)
                   THEN /\ secondaryCalls' = secondaryCalls + 1
                        /\ sent' = Append(sent, SecondaryRequest(request))
                        /\ pc' = "AwaitSecondary"
                        /\ UNCHANGED result
                   ELSE /\ result' = StoreInfoResponse(request,
                                                       finalResponse(content.value))
                        /\ pc' = "Done"
                        /\ UNCHANGED <<secondaryCalls, sent>>
                /\ UNCHANGED error
    /\ UNCHANGED <<storeName, request, attempt, primaryCalls, primaryRequests,
                   secondaryRequests, completion, responseData,
                   cleanVars, cliVars, concVars>>

\* the client sends the secondary request and gets an answer
SecondaryFulfilled(d) ==
    /\ pc = "AwaitSecondary"
    /\ secondaryRequests' = secondaryRequests + 1
    /\ responseData' = Fulfilled(d)
    /\ attempt' = 0
    /\ pc' = "SecondarySettled"
    /\ UNCHANGED <<storeName, request, sent, primaryCalls, secondaryCalls,
                   primaryRequests, completion, response, result, error,
                   cleanVars, cliVars, concVars>>

\* the client sends the secondary request and it fails
SecondaryFailed(e) ==
    /\ pc = "AwaitSecondary"
    /\ secondaryRequests' = secondaryRequests + 1
    /\ IF ShouldRetry(e) /\ attempt < maxRetries
       THEN /\ attempt' = attempt + 1
            /\ UNCHANGED <<responseData, pc>>
       ELSE /\ attempt' = 0
            /\ responseData' = Rejected(e)
            /\ pc' = "SecondarySettled"
    /\ UNCHANGED <<storeName, request, sent, primaryCalls, secondaryCalls,
                   primaryRequests, completion, response, result, error,
                   cleanVars, cliVars, concVars>>

\* the client has no responses API: the call throws before anything is sent
SecondaryUnavailable ==
    /\ pc = "AwaitSecondary"
    /\ attempt = 0
    /\ responseData' = Rejected(TypeError)
    /\ pc' = "SecondarySettled"
    /\ UNCHANGED <<storeName, request, sent, attempt, primaryCalls, secondaryCalls,
                   primaryRequests, secondaryRequests, completion, response,
                   result, error,
                   cleanVars, cliVars, concVars>>

\* faulty variant of SecondaryReturned: a rejected secondary call is thrown
\* on to the outer catch
SecondaryReturnedRethrow ==
    /\ pc = "SecondarySettled"
    /\ IF responseData.settled = "rejected"
       THEN /\ error' = caughtError(responseData.value)
            /\ pc' = "Failed"
            /\ UNCHANGED <<response, result>>
       ELSE /\ LET text == webSearchResponse(responseData.value)
                   resp == IF text.settled = "rejected"
                           THEN response
                           ELSE responseAfterWebSearch(text.value)
               IN  /\ response' = resp
                   /\ result' = StoreInfoResponse(request, finalResponse(resp))
            /\ pc' = "Done"
            /\ UNCHANGED error
    /\ UNCHANGED <<storeName, request, sent, attempt, primaryCalls, secondaryCalls,
                   primaryRequests, secondaryRequests, completion, responseData,
                   cleanVars, cliVars, concVars>>

\* getStoreInformation after the secondary call settled: extraction,
\* clean-up and sentinel check, with every error caught; then the final
\* substitution and the return
SecondaryReturned ==
    /\ pc = "SecondarySettled"
    /\ LET text == IF responseData.settled = "rejected"
                   THEN responseData
                   ELSE webSearchResponse(responseData.value)
           resp == IF text.settled = "rejected"
                   THEN response
                   ELSE responseAfterWebSearch(text.value)
       IN  /\ response' = resp
           /\ result' = StoreInfoResponse(request, finalResponse(resp))
    /\ pc' = "Done"
    /\ UNCHANGED <<storeName, request, sent, attempt, primaryCalls, secondaryCalls,
                   primaryRequests, secondaryRequests, completion, responseData,
                   error,
                   cleanVars, cliVars, concVars>>

Next ==
    \/ \E name \in StoreNames : GetStoreInfo(name)
    \/ \E c \in Completions : PrimaryFulfilled(c)
    \/ \E e \in ClientErrors : PrimaryFailed(e)
    \/ PrimaryReturned
    \/ \E d \in ResponseDatas : SecondaryFulfilled(d)
    \/ \E e \in ClientErrors : SecondaryFailed(e)
    \/ SecondaryUnavailable
    \/ SecondaryReturned

Spec == Init /\ [][Next]_vars

(***************************************************************************)
(* Clean-up specification: the chain applied to every text of a bounded    *)
(* set                                                                     *)
(***************************************************************************)
\* longest text over TextAlphabet the clean-up specification enumerates
MaxTextLen == 4

\* longest text over MarkupAlphabet the clean-up specification enumerates
MaxMarkupLen == 7

TextAlphabet == {"a", " ", "\n", "(", ")", "[", "]", ".", ",", "-"}

MarkupAlphabet == {"a", "(", ")", "[", "]"}

TextsOver(alphabet, n) == UNION {[1..k -> alphabet] : k \in 0..n}

CleanInputs ==
    TextsOver(TextAlphabet, MaxTextLen)
        \cup TextsOver(MarkupAlphabet, MaxMarkupLen)
        \cup SecondaryTexts

CleanInit ==
    /\ LookupInit
    /\ cleanPc = "raw"
    /\ rawText \in CleanInputs
    /\ cleanText = <<>>
    /\ env = Env(Undefined, Undefined, Undefined)
    /\ CliNotStarted

Clean ==
    /\ cleanPc = "raw"
    /\ cleanPc' = "clean"
    /\ cleanText' = cleanedResponse(rawText)
    /\ UNCHANGED <<rawText, lookupVars, cliVars, concVars>>

CleanNext == Clean

CleanSpec == CleanInit /\ [][CleanNext]_vars

(***************************************************************************)
(* Command line specification: main, the CLI and its loop                  *)
(***************************************************************************)
ApiKey == <<"s", "k">>

\* the environments the program is started in
Envs ==
    {Env(k, Undefined, Undefined) : k \in {Undefined, Some(<<>>), Some(ApiKey)}}
        \cup {Env(Some(ApiKey), m, Undefined) :
                m \in {Some(<<>>), Some(<<"g", "p", "t", "-", "4">>)}}
        \cup {Env(Some(ApiKey), Undefined, t) :
                t \in {Some(<<>>), Some(<<"5", "0", "0", "0">>),
                       Some(<<"a", "b", "c">>), Some(<<"1", "2", ".", "5">>),
                       Some(<<" ", "-", "1">>)}}
        \cup {Env(Undefined, Some(<<"g", "p", "t", "-", "4">>),
                  Some(<<"5", "0", "0", "0">>))}

\* what the user types at the store prompt
Inputs ==
    {<<>>, <<" ">>, AppleStore, <<" ", "a", " ">>,
     Letters(MaxStoreNameLength), Letters(MaxStoreNameLength + 1),
     <<" ">> \o Letters(MaxStoreNameLength)}

\* what the two remote calls answer in the command line specification
CliCompletions ==
    {Completion("content", Paragraph), Completion("content", Zero),
     Completion("malformed", <<>>)}

CliErrors == {ErrorValue("APIError", Some(401), Some("invalid_api_key")),
              TimeoutError}

CliResponseDatas ==
    {ResponseData("string", AcmeRaw, <<>>), ResponseData("string", Zero, <<>>),
     ResponseData("undefined", <<>>, <<>>)}

CliInit ==
    /\ LookupInit
    /\ cleanPc = "raw"
    /\ rawText = <<>>
    /\ cleanText = <<>>
    /\ env \in Envs
    /\ CliNotStarted

\* main up to the first prompt of run: the CLI is constructed and the store
\* prompt is shown, or the constructor throws and main exits with 1
Main ==
    /\ cliPc = "Start"
    /\ LET cli == CLI(env)
       IN  IF cli.threw
           THEN /\ caught' = cli.value
                /\ logged' = IF "type" \in DOMAIN cli.value
                                  /\ cli.value.type = "CONFIGURATION_ERROR"
                             THEN <<cli.value.message>>
                             ELSE <<"Failed to start application">>
                /\ exitCode' = Some(1)
                /\ cliPc' = "Exited"
                /\ UNCHANGED <<config, clientOptions, prompt>>
           ELSE /\ config' = cli.value.config
                /\ clientOptions' = cli.value.clientOptions
                /\ prompt' = "Enter store URL:"
                /\ cliPc' = "Prompt"
                /\ UNCHANGED <<caught, logged, exitCode>>
    /\ UNCHANGED <<env, validation, spinner, printed, continueRunning, goodbye,
                   lookupVars, cleanVars, concVars>>

\* the user types something the validator of the store prompt refuses: the
\* prompt shows the validator's message and stays
InputRejected(input) ==
    /\ cliPc = "Prompt"
    /\ ~validate(input).valid
    /\ validation' = validate(input).message
    /\ UNCHANGED <<env, config, clientOptions, cliPc, prompt, spinner, printed,
                   logged, continueRunning, goodbye, exitCode, caught,
                   lookupVars, cleanVars, concVars>>

\* the user types something the validator accepts: the spinner starts and
\* getStoreInfo is called with it
InputAccepted(input) ==
    /\ cliPc = "Prompt"
    /\ validate(input).valid
    /\ validation' = ""
    /\ spinner' = "start"
    /\ cliPc' = "Spinner"
    /\ getStoreInfo(input)
    /\ UNCHANGED <<env, config, clientOptions, prompt, printed, logged,
                   continueRunning, goodbye, exitCode, caught, cleanVars, concVars>>

\* getStoreInfo returned: the spinner succeeds and the response is
\* formatted; the block is printed and the continuation prompt shown, or
\* formatResponse throws, the spinner fails, the error is handled and the
\* retry prompt is shown
LookupReturned ==
    /\ cliPc = "Spinner"
    /\ pc = "Done"
    /\ LET formatted == formatResponse(result)
       IN  IF formatted.threw
           THEN /\ spinner' = "fail"
                /\ logged' = handleError(formatted.value)
                /\ prompt' = "Would you like to try again?"
                /\ cliPc' = "RetryPrompt"
                /\ UNCHANGED printed
           ELSE /\ spinner' = "succeed"
                /\ printed' = Some(formatted.value)
                /\ prompt' = "Would you like to search for another store?"
                /\ cliPc' = "ContinuePrompt"
                /\ UNCHANGED logged
    /\ UNCHANGED <<env, config, clientOptions, validation, continueRunning, goodbye,
                   exitCode, caught, lookupVars, cleanVars, concVars>>

\* faulty variant of LookupThrew: the lookup is issued again
LookupThrewReissues ==
    /\ cliPc = "Spinner"
    /\ pc = "Failed"
    /\ logged' = handleError(error)
    /\ error' = None
    /\ primaryCalls' = primaryCalls + 1
    /\ sent' = Append(sent, PrimaryRequest(request))
    /\ pc' = "AwaitPrimary"
    /\ UNCHANGED <<storeName, request, attempt, secondaryCalls,
                   primaryRequests, secondaryRequests, completion,
                   responseData, response, result>>
    /\ UNCHANGED <<env, config, clientOptions, cliPc, prompt, validation,
                   spinner, printed, continueRunning, goodbye, exitCode,
                   caught, cleanVars, concVars>>

\* faulty variant of LookupThrew: the error of a lookup ends the process
LookupThrewExits ==
    /\ cliPc = "Spinner"
    /\ pc = "Failed"
    /\ spinner' = "fail"
    /\ logged' = handleError(error)
    /\ exitCode' = Some(1)
    /\ cliPc' = "Exited"
    /\ UNCHANGED <<env, config, clientOptions, prompt, validation, printed,
                   continueRunning, goodbye, caught, lookupVars, cleanVars, concVars>>

\* getStoreInfo threw: the spinner fails, the error is handled and the retry
\* prompt is shown
LookupThrew ==
    /\ cliPc = "Spinner"
    /\ pc = "Failed"
    /\ spinner' = "fail"
    /\ logged' = handleError(error)
    /\ prompt' = "Would you like to try again?"
    /\ cliPc' = "RetryPrompt"
    /\ UNCHANGED <<env, config, clientOptions, validation, printed,
                   continueRunning, goodbye, exitCode, caught, lookupVars, cleanVars, concVars>>

\* the user answers the continuation or the retry prompt: on yes the loop
\* takes its next turn and shows the store prompt, on no run returns and main
\* exits with 0
Answered(choice) ==
    /\ cliPc \in {"ContinuePrompt", "RetryPrompt"}
    /\ continueRunning' = choice
    /\ IF choice
       THEN /\ cliPc' = "Prompt"
            /\ prompt' = "Enter store URL:"
            /\ spinner' = ""
            /\ printed' = Undefined
            /\ logged' = <<>>
            /\ pc' = "Idle"
            /\ storeName' = <<>>
            /\ request' = <<>>
            /\ attempt' = 0
            /\ primaryCalls' = 0
            /\ secondaryCalls' = 0
            /\ primaryRequests' = 0
            /\ secondaryRequests' = 0
            /\ completion' = None
            /\ responseData' = None
            /\ response' = <<>>
            /\ result' = None
            /\ error' = None
            /\ sent' = <<>>
            /\ UNCHANGED <<exitCode, goodbye>>
       ELSE /\ cliPc' = "Exited"
            /\ goodbye' = TRUE
            /\ exitCode' = Some(0)
            /\ UNCHANGED <<prompt, spinner, printed, logged, lookupVars>>
    /\ UNCHANGED <<env, config, clientOptions, validation, caught, cleanVars, concVars>>

CliNext ==
    \/ Main
    \/ \E input \in Inputs : InputRejected(input)
    \/ \E input \in Inputs : InputAccepted(input)
    \/ \E c \in CliCompletions : PrimaryFulfilled(c)
    \/ \E e \in CliErrors : PrimaryFailed(e)
    \/ PrimaryReturned
    \/ \E d \in CliResponseDatas : SecondaryFulfilled(d)
    \/ \E e \in CliErrors : SecondaryFailed(e)
    \/ SecondaryUnavailable
    \/ SecondaryReturned
    \/ LookupReturned
    \/ LookupThrew
    \/ \E choice \in BOOLEAN : Answered(choice)

CliSpec == CliInit /\ [][CliNext]_vars

(***************************************************************************)
(* Concurrent specification: several lookups in flight on one service      *)
(***************************************************************************)
\* number of lookups started on the service
NumLookups == 2

\* the frame of a call of getStoreInfo that has not run yet
NewLookup ==
    [pc |-> "Idle", storeName |-> <<>>, request |-> <<>>,
     primaryCalls |-> 0, secondaryCalls |-> 0,
     completion |-> None, responseData |-> None, response |-> <<>>,
     result |-> None, error |-> None]

\* the frame after getStoreInfo ran up to the first await
afterGetStoreInfo(l, name) ==
    IF validateStoreName(name) # None
    THEN [l EXCEPT !.storeName = name, !.error = validateStoreName(name),
                   !.pc = "Failed"]
    ELSE [l EXCEPT !.storeName = name, !.request = Trim(name),
                   !.primaryCalls = @ + 1, !.pc = "AwaitPrimary"]

\* the frame after the primary call settled with p and getStoreInformation
\* ran on to the next await, its return or its throw
afterPrimary(l, p) ==
    LET content == IF p.settled = "rejected" THEN p ELSE firstContent(p.value)
    IN  IF content.settled = "rejected"
        THEN [l EXCEPT !.completion = p, !.error = caughtError(content.value),
                       !.pc = "Failed"]
        ELSE IF IsInconclusive(content.value)
        THEN [l EXCEPT !.completion = p, !.response = content.value,
                       !.secondaryCalls = @ + 1, !.pc = "AwaitSecondary"]
        ELSE [l EXCEPT !.completion = p, !.response = content.value,
                       !.result = StoreInfoResponse(l.request,
                                                    finalResponse(content.value)),
                       !.pc = "Done"]

\* the frame after the secondary call settled with p and getStoreInformation
\* ran on to its return
afterSecondary(l, p) ==
    LET text == IF p.settled = "rejected" THEN p ELSE webSearchResponse(p.value)
        resp == IF text.settled = "rejected" THEN l.response
                ELSE responseAfterWebSearch(text.value)
    IN  [l EXCEPT !.responseData = p, !.response = resp,
                  !.result = StoreInfoResponse(l.request, finalResponse(resp)),
                  !.pc = "Done"]

\* what the callers pass and the client answers in the concurrent
\* specification
ConcStoreNames == {AppleStore, <<"a">>, <<>>}

ConcSettled ==
    {Fulfilled(c) : c \in CliCompletions} \cup {Rejected(e) : e \in CliErrors}

ConcSecondarySettled ==
    {Fulfilled(d) : d \in CliResponseDatas} \cup {Rejected(e) : e \in CliErrors}

ConcInit ==
    /\ LookupInit
    /\ cleanPc = "raw"
    /\ rawText = <<>>
    /\ cleanText = <<>>
    /\ env = Env(Undefined, Undefined, Undefined)
    /\ config = None
    /\ clientOptions = None
    /\ cliPc = "Start"
    /\ prompt = ""
    /\ validation = ""
    /\ spinner = ""
    /\ printed = Undefined
    /\ logged = <<>>
    /\ continueRunning = TRUE
    /\ exitCode = Undefined
    /\ caught = None
    /\ goodbye = FALSE
    /\ lookups = [i \in 1..NumLookups |-> NewLookup]
    /\ calls = [primary |-> 0, secondary |-> 0]

\* faulty variant of ConcGetStoreInfo: a lookup of a name another lookup has
\* asked for issues no call of its own
ConcGetStoreInfoShared(i, name) ==
    /\ lookups[i].pc = "Idle"
    /\ lookups' = [lookups EXCEPT ![i] = afterGetStoreInfo(@, name)]
    /\ calls' = IF \E j \in DOMAIN lookups :
                      j # i /\ lookups[j].primaryCalls > 0
                            /\ lookups[j].request = Trim(name)
                THEN calls
                ELSE [calls EXCEPT !.primary =
                          @ + lookups'[i].primaryCalls - lookups[i].primaryCalls]
    /\ UNCHANGED <<lookupVars, cleanVars, cliVars>>

\* lookup i is started: getStoreInfo(name) runs up to the first await
ConcGetStoreInfo(i, name) ==
    /\ lookups[i].pc = "Idle"
    /\ lookups' = [lookups EXCEPT ![i] = afterGetStoreInfo(@, name)]
    /\ calls' = [calls EXCEPT !.primary =
                    @ + lookups'[i].primaryCalls - lookups[i].primaryCalls]
    /\ UNCHANGED <<lookupVars, cleanVars, cliVars>>

\* the primary call of lookup i settles and the lookup runs on
ConcPrimarySettled(i, p) ==
    /\ lookups[i].pc = "AwaitPrimary"
    /\ lookups' = [lookups EXCEPT ![i] = afterPrimary(@, p)]
    /\ calls' = [calls EXCEPT !.secondary =
                    @ + lookups'[i].secondaryCalls - lookups[i].secondaryCalls]
    /\ UNCHANGED <<lookupVars, cleanVars, cliVars>>

\* the secondary call of lookup i settles and the lookup returns
ConcSecondaryReturned(i, p) ==
    /\ lookups[i].pc = "AwaitSecondary"
    /\ lookups' = [lookups EXCEPT ![i] = afterSecondary(@, p)]
    /\ UNCHANGED <<calls, lookupVars, cleanVars, cliVars>>

ConcNext ==
    \/ \E i \in 1..NumLookups, name \in ConcStoreNames : ConcGetStoreInfo(i, name)
    \/ \E i \in 1..NumLookups, p \in ConcSettled : ConcPrimarySettled(i, p)
    \/ \E i \in 1..NumLookups, p \in ConcSecondarySettled :
          ConcSecondaryReturned(i, p)

ConcSpec == ConcInit /\ [][ConcNext]_vars

(***************************************************************************)
(* Properties                                                              *)
(***************************************************************************)
\* the lookup returned a StoreInfoResponse
Returned == pc = "Done"

\* the lookup threw a StoreInfoError of the given type
Threw(type) == pc = "Failed" /\ error.type = type

\* the primary call was fulfilled with a completion that has an output: the
\* content of the first choice, empty when there is none
PrimaryHasOutput ==
    /\ completion # None
    /\ completion.settled = "fulfilled"
    /\ completion.value.shape # "malformed"

PrimaryOutput == completion.value.content

PrimaryRejected == completion # None /\ completion.settled = "rejected"

SecondaryRejected == responseData # None /\ responseData.settled = "rejected"

\* the secondary call was fulfilled with a text, as a string or as the
\* output_text of an object
SecondaryHasOutput ==
    /\ responseData # None
    /\ responseData.settled = "fulfilled"
    /\ \/ responseData.value.shape = "string"
       \/ responseData.value.shape = "object" /\ responseData.value.text # <<>>

SecondaryOutput == responseData.value.text

\* C1: the text of every result returned is neither the sentinel "0" nor
\* empty, whatever the primary and the secondary call answered.
C1_TextNeverSentinel ==
    Returned => /\ result.information # Zero
                /\ Len(result.information) > 0
                /\ Trim(result.information) = result.information

\* a lookup whose primary call answered "0" and whose web search answered
\* a text that cleans to "0" returned the fallback sentence
C1_Witness ==
    /\ Returned
    /\ completion = Fulfilled(Completion("content", Zero))
    /\ responseData = Fulfilled(ResponseData("string", <<"0", " ", "(", "a", ")">>, <<>>))
    /\ result.information = FallbackSentence

\* C2 as stated: INVALID_INPUT is thrown exactly for the names whose length
\* after trimming is 0 or above 200.
C2_TrimmedLengthDecides ==
    pc # "Idle" =>
        (Threw("INVALID_INPUT") <=> Len(Trim(storeName)) \notin 1..200)

\* C2 as amended: INVALID_INPUT is thrown exactly for the names that are
\* blank after trimming or whose untrimmed length is above 200.
C2_RawLengthDecides ==
    pc # "Idle" =>
        (Threw("INVALID_INPUT") <=>
            (Len(Trim(storeName)) = 0 \/ Len(storeName) > 200))

\* a name of 200 letters with white space around it was rejected
C2_Witness ==
    /\ Threw("INVALID_INPUT")
    /\ Len(Trim(storeName)) = 200
    /\ Len(storeName) > 200

\* C3: a lookup of an empty, blank or over-long name throws INVALID_INPUT
\* and issues no primary and no secondary call, at any time.
C3_InvalidNameNoRemoteCall ==
    (pc # "Idle" /\ (Len(Trim(storeName)) = 0 \/ Len(storeName) > 200)) =>
        /\ Threw("INVALID_INPUT")
        /\ primaryCalls = 0 /\ secondaryCalls = 0
        /\ primaryRequests = 0 /\ secondaryRequests = 0
        /\ completion = None /\ responseData = None

\* the lookup of the empty name threw
C3_Witness == Threw("INVALID_INPUT") /\ storeName = <<>> /\ primaryCalls = 0

\* C4: the secondary call is issued at most once, only after the primary
\* call answered a text that trims to "0" or to nothing, and a lookup that
\* ended issued it exactly when the primary call answered such a text.
C4_SecondaryIffInconclusive ==
    LET inconclusive ==
            /\ PrimaryHasOutput
            /\ (Trim(PrimaryOutput) = Zero \/ Trim(PrimaryOutput) = <<>>)
    IN  /\ secondaryCalls <= 1
        /\ secondaryCalls = 1 => inconclusive /\ pc \notin {"AwaitPrimary", "PrimarySettled"}
        /\ secondaryCalls = 0 => secondaryRequests = 0 /\ responseData = None
        /\ pc \in {"Done", "Failed"} => (secondaryCalls = 1 <=> inconclusive)

\* the lookup of "Apple Store" whose primary call answered a paragraph
\* returned it without a secondary call
C4_Witness ==
    /\ Returned
    /\ storeName = AppleStore
    /\ completion = Fulfilled(Completion("content", Paragraph))
    /\ result.information = Paragraph
    /\ secondaryCalls = 0

\* C5 as stated: a primary output that is not empty and not "0" is the
\* result text, unchanged.
C5_PrimaryUnchanged ==
    (Returned /\ PrimaryHasOutput /\ PrimaryOutput # <<>> /\ PrimaryOutput # Zero) =>
        result.information = PrimaryOutput

\* C5 as amended: a primary output that, trimmed, is not empty and not "0"
\* is the result text with the white space at its ends removed and nothing
\* else changed, and no secondary call is issued.
C5_PrimaryTrimmedOnly ==
    (Returned /\ PrimaryHasOutput
        /\ Trim(PrimaryOutput) # <<>> /\ Trim(PrimaryOutput) # Zero) =>
        /\ result.information = Trim(PrimaryOutput)
        /\ secondaryCalls = 0

\* a primary output full of markup, which the clean-up chain would change,
\* was returned as it was
C5_Witness ==
    /\ Returned
    /\ completion = Fulfilled(Completion("content", AcmeRaw))
    /\ result.information = AcmeRaw
    /\ cleanedResponse(AcmeRaw) # AcmeRaw

\* C6: once the secondary call has been issued the lookup never fails, and
\* when the secondary call throws the result text is the fallback sentence.
C6_SecondaryErrorAbsorbed ==
    /\ secondaryCalls > 0 => pc # "Failed" /\ error = None
    /\ (Returned /\ SecondaryRejected) => result.information = FallbackSentence

\* a lookup whose web search timed out returned the fallback sentence
C6_Witness ==
    /\ Returned
    /\ responseData = Rejected(TimeoutError)
    /\ result.information = FallbackSentence
    /\ error = None

\* C7 as stated: when the primary call fails no secondary call is issued,
\* an error response of the provider becomes API_ERROR with its status and
\* code, and every other failure becomes NETWORK_ERROR.
C7_PrimaryFailureKinds ==
    PrimaryRejected =>
        /\ secondaryCalls = 0
        /\ pc = "Failed" =>
              IF completion.value \in StatusErrors
              THEN /\ error.type = "API_ERROR"
                   /\ error.details = [status |-> completion.value.status,
                                       code |-> completion.value.code]
              ELSE error.type = "NETWORK_ERROR"

\* C8 as stated: a primary call that times out fails the lookup with
\* NETWORK_ERROR after exactly one request.
C8_TimeoutIsNetworkErrorOnce ==
    (pc = "Failed" /\ completion = Rejected(TimeoutError)) =>
        /\ error.type = "NETWORK_ERROR"
        /\ primaryCalls = 1
        /\ primaryRequests = 1

\* C9: when the secondary call returns a text, the result text is the
\* fallback sentence if the cleaned text is "0" or empty and the cleaned
\* text otherwise; it is not the primary text, and not the raw secondary
\* text unless cleaning left that unchanged.
C9_CleanedSecondaryText ==
    (Returned /\ SecondaryHasOutput) =>
        LET cleaned == cleanedResponse(SecondaryOutput)
        IN  IF cleaned = Zero \/ cleaned = <<>>
            THEN result.information = FallbackSentence
            ELSE /\ result.information = cleaned
                 /\ result.information # PrimaryOutput
                 /\ cleaned # SecondaryOutput => result.information # SecondaryOutput

\* a lookup whose web search answered the marked-up Acme text returned the
\* cleaned text
C9_Witness ==
    /\ Returned
    /\ responseData = Fulfilled(ResponseData("string", AcmeRaw, <<>>))
    /\ result.information = AcmeClean

HasMarkdownLink(t) ==
    \E j \in 1..Len(t) :
        /\ t[j] = "]" /\ At(t, j + 1) = "("
        /\ \E i \in 1..(j - 1) : t[i] = "["
        /\ \E k \in (j + 2)..Len(t) : t[k] = ")"

HasParenthetical(t) ==
    \E i \in 1..Len(t) : t[i] = "(" /\ \E k \in (i + 1)..Len(t) : t[k] = ")"

\* C10: the cleaned text holds no markdown link, no parenthetical, no line
\* break, no two white-space characters in a row, no white space before a
\* period or a comma and none at either end; the marked-up Acme text
\* cleans to "Acme was founded in 1990 extra spaces."
C10_CleanedTextShape ==
    cleanPc = "clean" =>
        /\ ~HasMarkdownLink(cleanText)
        /\ ~HasParenthetical(cleanText)
        /\ \A i \in 1..Len(cleanText) :
              /\ cleanText[i] # "\n"
              /\ cleanText[i] \in WhiteSpace =>
                    /\ At(cleanText, i + 1) \notin WhiteSpace \cup {".", ","}
                    /\ i # 1 /\ i # Len(cleanText)
        /\ rawText = AcmeRaw => cleanText = AcmeClean

\* the marked-up Acme text has been cleaned
C10_Witness == cleanPc = "clean" /\ rawText = AcmeRaw /\ cleanText = AcmeClean

\* C11: cleaning a cleaned text gives the same text again.
C11_CleanIdempotent ==
    cleanPc = "clean" => cleanedResponse(cleanText) = cleanText

\* a text with a parenthetical and a space before its period has been
\* cleaned
C11_Witness ==
    /\ cleanPc = "clean"
    /\ rawText = <<"a", " ", "(", "b", ")", " ", "c", " ", ".">>
    /\ cleanText = <<"a", " ", "c", ".">>

\* C12: a lookup that ended either returned a result with the trimmed name
\* and a text, or threw a StoreInfoError of type INVALID_INPUT, API_ERROR or
\* NETWORK_ERROR and returned nothing; before it ends there is neither.
C12_ResultOrTypedError ==
    /\ pc = "Done" =>
          /\ DOMAIN result = {"storeName", "information"}
          /\ result.storeName = Trim(storeName)
          /\ Len(result.information) > 0
          /\ error = None
    /\ pc = "Failed" =>
          /\ "type" \in DOMAIN error
          /\ error.type \in {"INVALID_INPUT", "API_ERROR", "NETWORK_ERROR"}
          /\ result = None
    /\ pc \notin {"Done", "Failed"} => result = None /\ error = None

\* a lookup whose primary call answered a completion without choices threw
\* NETWORK_ERROR
C12_Witness ==
    /\ pc = "Failed"
    /\ completion = Fulfilled(Completion("malformed", <<>>))
    /\ error.type = "NETWORK_ERROR"
    /\ result = None

\* t holds sub as a contiguous part
Contains(t, sub) ==
    \E i \in 0..(Len(t) - Len(sub)) : SubSeq(t, i + 1, i + Len(sub)) = sub

\* "Store name cannot be empty"
StoreNameCannotBeEmpty ==
    <<"S","t","o","r","e"," ","n","a","m","e"," ","c","a","n","n","o","t",
      " ","b","e"," ","e","m","p","t","y">>

\* C19 as stated: the lookup of the empty name throws an error whose message
\* contains "Store name cannot be empty".
C19_EmptyNameMessage ==
    (pc = "Failed" /\ storeName = <<>>) =>
        Contains(MessageText(error.message), StoreNameCannotBeEmpty)

\* C20 as stated: the lookup sends at most one primary and at most one
\* secondary request, and no secondary request before the primary call
\* was answered.
C20_OneRequestPerStage ==
    /\ primaryCalls <= 1 /\ secondaryCalls <= 1
    /\ primaryRequests <= 1 /\ secondaryRequests <= 1
    /\ secondaryRequests > 0 => PrimaryHasOutput

\* C13 as stated: the model of the primary call is the one OPENAI_MODEL
\* names, and the default model only when OPENAI_MODEL is absent.
C13_ConfiguredModelUsed ==
    primaryCalls > 0 =>
        /\ PrimaryModel = config.model
        /\ PrimaryModel = IF Truthy(env.OPENAI_MODEL) THEN env.OPENAI_MODEL[1]
                          ELSE DefaultModel

\* OPENAI_API_KEY is unset or empty
ApiKeyAbsent == ~Truthy(env.OPENAI_API_KEY)

\* C14: without an API key nothing is ever prompted, configured, looked up
\* or sent, and once main has run the process has exited with 1 on the
\* CONFIGURATION_ERROR getOpenAIConfig threw.
C14_NoKeyExitsBeforeAnything ==
    ApiKeyAbsent =>
        /\ prompt = ""
        /\ config = None /\ clientOptions = None
        /\ pc = "Idle"
        /\ primaryCalls = 0 /\ secondaryCalls = 0
        /\ primaryRequests = 0 /\ secondaryRequests = 0
        /\ cliPc \in {"Start", "Exited"}
        /\ cliPc = "Exited" =>
              /\ exitCode = Some(1)
              /\ caught = getOpenAIConfig(env).value
              /\ caught.type = "CONFIGURATION_ERROR"

\* started with an empty OPENAI_API_KEY, the process has exited with 1
C14_Witness ==
    /\ env.OPENAI_API_KEY = Some(<<>>)
    /\ cliPc = "Exited"
    /\ exitCode = Some(1)
    /\ caught.type = "CONFIGURATION_ERROR"

\* C15 as stated: once a lookup of the loop has returned a result, the
\* formatted block is printed and the prompt shown is the continuation
\* prompt.
C15_ResultPrintedThenContinue ==
    (pc = "Done" /\ cliPc \in {"ContinuePrompt", "RetryPrompt", "Exited"}) =>
        /\ printed # Undefined
        /\ prompt = "Would you like to search for another store?"

\* C16: the exit code is 0 exactly when the loop ended on a no to the
\* continuation or retry prompt, and 1 exactly when main caught a failure of
\* the start; no lookup has thrown when the exit code is 1.
C16_ExitCodes ==
    /\ exitCode # Undefined <=> cliPc = "Exited"
    /\ exitCode = Some(0) <=>
          /\ cliPc = "Exited"
          /\ ~continueRunning
          /\ prompt \in {"Would you like to search for another store?",
                         "Would you like to try again?"}
    /\ exitCode = Some(1) <=> caught # None
    /\ exitCode = Some(1) => pc = "Idle" /\ prompt = ""
    /\ pc = "Failed" => exitCode # Some(1)

\* a lookup threw, the user declined the retry prompt and the process has
\* exited with 0
C16_Witness ==
    /\ pc = "Failed"
    /\ cliPc = "Exited"
    /\ prompt = "Would you like to try again?"
    /\ ~continueRunning
    /\ exitCode = Some(0)

\* C18 as stated: the timeout of the configuration is an integer, it is
\* the timeout the client is built with, and it is 30000 when API_TIMEOUT is
\* not set.
C18_TimeoutIsInteger ==
    config # None =>
        /\ ~config.timeout.nan
        /\ clientOptions.timeout = config.timeout
        /\ env.API_TIMEOUT = Undefined => config.timeout = Num(30000)

\* the frame a lookup running alone has with the name and the answers of l
Alone(l) ==
    IF l.pc = "Idle" THEN NewLookup
    ELSE LET started == afterGetStoreInfo(NewLookup, l.storeName)
         IN  IF l.completion = None THEN started
             ELSE LET answered == afterPrimary(started, l.completion)
                  IN  IF l.responseData = None THEN answered
                      ELSE afterSecondary(answered, l.responseData)

\* the lookups that passed validation
Accepted ==
    {i \in DOMAIN lookups :
        lookups[i].pc # "Idle" /\ validateStoreName(lookups[i].storeName) = None}

\* C17: under every interleaving each lookup is where it would be running
\* alone with its own name and its own answers, every lookup that passed
\* validation issued exactly one primary call of its own, and the client was
\* given one primary call per such lookup and one secondary call per lookup
\* that went to the web search.
C17_LookupsIndependent ==
    /\ \A i \in DOMAIN lookups : lookups[i] = Alone(lookups[i])
    /\ \A i \in Accepted : lookups[i].primaryCalls = 1
    /\ calls.primary = Cardinality(Accepted)
    /\ calls.secondary =
          Cardinality({i \in DOMAIN lookups : lookups[i].secondaryCalls = 1})

\* two lookups of the same name each issued a primary call; one failed and
\* the other returned a result
C17_Witness ==
    \E i, j \in DOMAIN lookups :
        /\ i # j
        /\ lookups[i].storeName = AppleStore
        /\ lookups[j].storeName = AppleStore
        /\ lookups[i].pc = "Failed"
        /\ lookups[j].pc = "Done"
        /\ calls.primary >= 2

\* the state of the lookup's state machine
Stage ==
    CASE pc = "Idle" -> "Start"
      [] pc \in {"AwaitPrimary", "PrimarySettled"} -> "PrimaryCalled"
      [] pc \in {"AwaitSecondary", "SecondarySettled"} -> "SecondaryAttempted"
      [] pc = "Done" -> "Done"
      [] pc = "Failed" -> "Failed"

\* C21 as stated: a lookup that returned without a secondary call returned
\* the primary text, which is not the fallback sentence, and a lookup that
\* returned the fallback sentence attempted the secondary call.
C21_DirectDoneReturnsPrimaryText ==
    /\ (Returned /\ secondaryCalls = 0) =>
          /\ result.information = PrimaryOutput
          /\ result.information # FallbackSentence
    /\ (Returned /\ result.information = FallbackSentence) => secondaryCalls = 1

\* C21 as amended: the lookup moves only along Start -> PrimaryCalled ->
\* {Done | SecondaryAttempted -> Done}, or to a thrown error from Start or
\* PrimaryCalled; on PrimaryCalled -> Done the result is the primary text
\* with the white space at its ends removed, which is neither empty nor
\* "0", and on SecondaryAttempted -> Done it is the cleaned secondary text
\* or the fallback sentence.
C21_StateMachine ==
    [][Stage' # Stage =>
          /\ <<Stage, Stage'>> \in
                {<<"Start", "PrimaryCalled">>, <<"Start", "Failed">>,
                 <<"PrimaryCalled", "Done">>, <<"PrimaryCalled", "Failed">>,
                 <<"PrimaryCalled", "SecondaryAttempted">>,
                 <<"SecondaryAttempted", "Done">>}
          /\ <<Stage, Stage'>> = <<"Start", "Failed">> =>
                validateStoreName(storeName') # None
          /\ <<Stage, Stage'>> = <<"Start", "PrimaryCalled">> =>
                validateStoreName(storeName') = None
          /\ <<Stage, Stage'>> = <<"PrimaryCalled", "Done">> =>
                /\ result'.information = Trim(PrimaryOutput)
                /\ Trim(PrimaryOutput) \notin {<<>>, Zero}
                /\ secondaryCalls' = 0
          /\ <<Stage, Stage'>> = <<"SecondaryAttempted", "Done">> =>
                /\ secondaryCalls' = 1
                /\ \/ result'.information = FallbackSentence
                   \/ /\ responseData.settled = "fulfilled"
                      /\ webSearchResponse(responseData.value).settled = "fulfilled"
                      /\ result'.information = cleanedResponse(
                             webSearchResponse(responseData.value).value)
      ]_vars

\* a primary text with white space at its ends was returned trimmed,
\* without a secondary call
C21_Witness ==
    /\ Returned
    /\ secondaryCalls = 0
    /\ completion = Fulfilled(Completion("content",
                                         <<" ">> \o Paragraph \o <<"\n">>))
    /\ result.information = Paragraph

\* what the lookup returns for the text t extracted from the secondary
\* answer
ReturnedFor(t) ==
    IF cleanedResponse(t) \in {<<>>, Zero} THEN FallbackSentence
    ELSE cleanedResponse(t)

\* C22: a lookup whose secondary call was answered never fails, and it
\* returns what it returns for the text extracted in this order: the answer
\* itself when it is a string; else its output_text when that is not empty;
\* else, for a list, the text of the first 'message' item whose first
\* content element is of type 'output_text'; else the empty text, that is
\* the fallback sentence.
C22_ExtractionPrecedence ==
    (responseData # None /\ responseData.settled = "fulfilled") =>
        /\ pc # "Failed"
        /\ Returned =>
              LET d == responseData.value
                  messages == IF d.shape # "list" THEN {}
                              ELSE {i \in 1..Len(d.items) :
                                      /\ d.items[i].type = "message"
                                      /\ d.items[i].ctype = "output_text"}
              IN  result.information =
                      IF d.shape = "string" THEN ReturnedFor(d.text)
                      ELSE IF d.shape \in {"object", "list"} /\ d.text # <<>>
                           THEN ReturnedFor(d.text)
                      ELSE IF messages # {}
                           THEN ReturnedFor(d.items[Min(messages)].text)
                      ELSE FallbackSentence

\* a list that has an output_text as well as a message item was answered,
\* and the output_text was returned
C22_Witness ==
    /\ Returned
    /\ responseData = Fulfilled(ResponseData("list", Paragraph,
                          <<Item("message", "output_text", AcmeRaw)>>))
    /\ result.information = Paragraph

\* the store name a request text embeds: what stands between the first
\* `URL: "` and the last `". Focus`
EmbeddedName(text) ==
    LET heads == {i \in 1..(Len(text) - Len(PromptHead) + 1) :
                    /\ text[i] = PromptHead[1]
                    /\ SubSeq(text, i, i + Len(PromptHead) - 1) = PromptHead}
        tails == {i \in 1..(Len(text) - Len(PromptTail) + 1) :
                    /\ text[i] = PromptTail[1]
                    /\ SubSeq(text, i, i + Len(PromptTail) - 1) = PromptTail}
    IN  SubSeq(text, Min(heads) + Len(PromptHead), Max(tails) - 1)

\* C23: once a lookup has passed validation, every request it handed to the
\* client, primary or secondary, embeds the store name with the white space
\* at its ends removed, and so does the result it returns.
C23_IdentifierTrimmed ==
    (pc # "Idle" /\ validateStoreName(storeName) = None) =>
        LET trimmed == Trim(storeName)
        IN  /\ request = trimmed
            /\ Len(sent) = primaryCalls + secondaryCalls
            /\ Len(sent) >= 1
            /\ sent[1].api = "chat.completions"
            /\ secondaryCalls = 1 => sent[2].api = "responses"
            /\ \A k \in 1..Len(sent) : EmbeddedName(sent[k].text) = trimmed
            /\ Returned => result.storeName = trimmed

\* the lookup of " a " went to the web search and returned a result for "a"
C23_Witness ==
    /\ Returned
    /\ storeName = <<" ", "a", " ">>
    /\ Len(sent) = 2
    /\ EmbeddedName(sent[2].text) = <<"a">>
    /\ result.storeName = <<"a">>

\* C24: a step taken when a lookup of the loop has thrown logs the error,
\* shows the retry prompt and leaves the lookup as it is; a step taken at
\* the retry prompt shows the store prompt when the answer is yes and ends
\* the loop when it is no; a primary call is issued only on an answer to the
\* store prompt; and the closing message is printed only on a no to the
\* continuation or the retry prompt.
C24_FailureRecoverable ==
    [][/\ (cliPc = "Spinner" /\ pc = "Failed") =>
              /\ error.type \in {"INVALID_INPUT", "API_ERROR", "NETWORK_ERROR"}
              /\ logged' = handleError(error) /\ logged' # <<>>
              /\ cliPc' = "RetryPrompt"
              /\ prompt' = "Would you like to try again?"
              /\ exitCode' = Undefined /\ ~goodbye'
              /\ UNCHANGED lookupVars
       /\ cliPc = "RetryPrompt" =>
              /\ continueRunning' <=>
                    (cliPc' = "Prompt" /\ prompt' = "Enter store URL:")
              /\ ~continueRunning' <=> (cliPc' = "Exited" /\ goodbye')
              /\ primaryCalls' = 0 \/ UNCHANGED lookupVars
       /\ primaryCalls' > primaryCalls => cliPc = "Prompt"
       /\ (goodbye' /\ ~goodbye) =>
              /\ cliPc \in {"ContinuePrompt", "RetryPrompt"}
              /\ ~continueRunning'
      ]_vars

\* a lookup of the loop threw NETWORK_ERROR after one primary call; the
\* error was logged and the retry prompt is shown
C24_Witness ==
    /\ cliPc = "RetryPrompt"
    /\ pc = "Failed"
    /\ error.type = "NETWORK_ERROR"
    /\ logged = <<"Network Error: Please check your internet connection.">>
    /\ prompt = "Would you like to try again?"
    /\ primaryCalls = 1

\* C25: the validator of the store prompt and validateStoreName accept the
\* same inputs, those that are not blank and at most 200 characters long
\* untrimmed; every name the loop passed to getStoreInfo passes
\* validateStoreName, and no lookup of the loop throws INVALID_INPUT.
C25_ValidatorsAgree ==
    /\ \A input \in Inputs :
          /\ validate(input).valid <=> validateStoreName(input) = None
          /\ validate(input).valid <=>
                (Len(Trim(input)) > 0 /\ Len(input) <= MaxStoreNameLength)
    /\ cliPc = "Spinner" => validate(storeName).valid
    /\ pc # "Idle" => validateStoreName(storeName) = None
    /\ pc = "Failed" => error.type # "INVALID_INPUT"

\* a name of exactly 200 characters was accepted by the prompt and by
\* getStoreInfo
C25_Witness ==
    /\ cliPc = "Spinner"
    /\ storeName = Letters(MaxStoreNameLength)
    /\ pc = "AwaitPrimary"
    /\ validation = ""

\* t holds a hyphen, a bullet or a middle dot
HasBulletChar(t) == \E i \in 1..Len(t) : t[i] \in BulletChars

\* t with a space in the place of every hyphen, bullet and middle dot
SpacedOut(t) == [i \in 1..Len(t) |-> IF t[i] \in BulletChars THEN " " ELSE t[i]]

\* C26 as stated: the text a lookup returns from the secondary path for the
\* secondary text rawText holds no hyphen, bullet or middle dot.
C26_ReturnedTextHasNoBullet ==
    cleanPc = "clean" =>
        ~HasBulletChar(finalResponse(responseAfterWebSearch(rawText)))

\* C26 as amended: the cleaned text holds no hyphen, bullet or middle dot,
\* and for a text that holds one it is the text that cleaning gives when a
\* space stands in the place of each of them; the text returned from the
\* secondary path, which is the fallback sentence when the cleaned text is
\* empty or "0" and the cleaned text otherwise, holds none of them unless
\* it is the fallback sentence.
C26_CleanedTextHasNoBullet ==
    cleanPc = "clean" =>
        /\ ~HasBulletChar(cleanText)
        /\ HasBulletChar(rawText) => cleanText = cleanedResponse(SpacedOut(rawText))
        /\ LET returned == finalResponse(IF cleanText \in {<<>>, Zero} THEN Zero
                                         ELSE cleanText)
           IN  returned = FallbackSentence \/ ~HasBulletChar(returned)

\* a hyphen inside a word has been replaced by a space
C26_Witness ==
    /\ cleanPc = "clean"
    /\ rawText = <<"a", "-", "a">>
    /\ cleanText = <<"a", " ", "a">>

====
